---- MODULE Spec2Model ----
(***************************************************************************)
(* The skip list of src/bin/skip_list.rs: an index-addressed arena of      *)
(* nodes, a head sentinel with MAX_LEVEL+1 forward entries, the level      *)
(* counter and a 32-bit xorshift generator that draws node heights.        *)
(*                                                                         *)
(* Arena indices and levels are 0-based as in the source; the TLA+         *)
(* sequences that hold them are 1-based, so nodes[idx] of the source is    *)
(* sl.nodes[idx + 1] here and forward[level] is forward[level + 1].        *)
(* Option<usize> is an integer: None is -1, Some(i) is i.                  *)
(* A u32 is the pair <<high 16 bits, low 16 bits>>, so that shifts and     *)
(* xors are computed on the 32 bits exactly as the machine computes them.  *)
(***************************************************************************)
EXTENDS Integers, Sequences, FiniteSets, TLC

MAX_LEVEL == 16

SEED_COUNTER == 1

\* Bounds of the model: values are 1..MaxVal, and at most MaxInserts
\* non-duplicate inserts (calls of random_level) happen in a behaviour.
MaxVal == 3

MaxInserts == 3

\* Bounds of the seeding model: NumThreads threads make at most MaxCalls calls
\* of new() between them, and at most MaxDraws calls of next_random are made
\* on a list.
NumThreads == 2

MaxCalls == 2

MaxDraws == 2

Values == 1..MaxVal

None == -1

----------------------------------------------------------------------------
\* 32-bit words: <<high 16 bits, low 16 bits>>

RECURSIVE Xor16(_, _, _)
Xor16(a, b, i) ==
    IF i = 16
    THEN 0
    ELSE (((a \div (2 ^ i)) + (b \div (2 ^ i))) % 2) * (2 ^ i) + Xor16(a, b, i + 1)

Xor(x, y) == <<Xor16(x[1], y[1], 0), Xor16(x[2], y[2], 0)>>

\* x << k on a u32: the bits shifted past bit 31 are dropped
Shl(x, k) ==
    IF k < 16
    THEN <<(x[1] * (2 ^ k) + (x[2] \div (2 ^ (16 - k)))) % 65536,
           (x[2] * (2 ^ k)) % 65536>>
    ELSE <<(x[2] * (2 ^ (k - 16))) % 65536, 0>>

\* x >> k on a u32
Shr(x, k) ==
    IF k < 16
    THEN <<x[1] \div (2 ^ k),
           (x[2] \div (2 ^ k)) + (x[1] % (2 ^ k)) * (2 ^ (16 - k))>>
    ELSE <<0, x[1] \div (2 ^ (k - 16))>>

\* x | 1
Or1(x) == <<x[1], IF x[2] % 2 = 0 THEN x[2] + 1 ELSE x[2]>>

\* x % 2
Mod2(x) == x[2] % 2

\* counter.wrapping_mul(31) for a counter below 2^26 (the product fits 31 bits)
wrapping_mul31(counter) ==
    <<((counter * 31) \div 65536) % 65536, (counter * 31) % 65536>>

\* counter.wrapping_mul(31) for any u32 counter, as <<high half, low half>>
wrapping_mul31_wide(counter) ==
    <<(counter[1] * 31 + ((counter[2] * 31) \div 65536)) % 65536,
      (counter[2] * 31) % 65536>>

\* [mutant of fetch_add] the store is lost: the counter keeps its value
fetch_add_lost(counter) == [old |-> counter, now |-> counter]

\* SEED_COUNTER.fetch_add(1, Relaxed): one atomic read-modify-write that
\* returns the old value and leaves old + 1, wrapping at 2^32
fetch_add(counter) ==
    [old |-> counter,
     now |-> IF counter[2] < 65535
             THEN <<counter[1], counter[2] + 1>>
             ELSE IF counter[1] < 65535
                  THEN <<counter[1] + 1, 0>>
                  ELSE <<0, 0>>]

\* [mutant of seed] without `| 1`
seed_no_or(counter, stack_addr) == Xor(wrapping_mul31_wide(counter), stack_addr)

\* new: `(counter.wrapping_mul(31) ^ (stack_addr as u32)) | 1`
seed(counter, stack_addr) ==
    Or1(Xor(wrapping_mul31_wide(counter), stack_addr))

\* Low 32 bits of the address of a stack slot holding a u32 (4-aligned),
\* as <<high half, low half>>.  The address is not fixed by the program; these
\* make the first heights drawn 0 1 0, 0 1 2, 1 2 0, 1 0 2, 2 1 2, 2 0 2,
\* 0 0 1, 1 1 0 and 16 1 2 (seventeen even draws in a row).
StackAddrs ==
    { <<4096, 344>>, <<4096, 284>>, <<4096, 260>>, <<4096, 776>>, <<4096, 576>>,
      <<4096, 32>>, <<4096, 24>>, <<4096, 320>>, <<4126, 41912>> }

----------------------------------------------------------------------------
\* The structure

\* [mutant of Node_new] `vec![None; level]`: one forward entry too few
Node_new_short(value, level) ==
    [value |-> value, forward |-> [i \in 1..level |-> None]]

Node_new(value, level) ==
    [value |-> value, forward |-> [i \in 1..(level + 1) |-> None]]

\* [mutant of new] `vec![None; MAX_LEVEL]`: the head is one entry short
new_short_head(counter, stack_addr) ==
    [nodes        |-> << >>,
     head_forward |-> [i \in 1..MAX_LEVEL |-> None],
     level        |-> 0,
     rng_state    |-> Or1(Xor(wrapping_mul31(counter), stack_addr))]

new(counter, stack_addr) ==
    [nodes        |-> << >>,
     head_forward |-> [i \in 1..(MAX_LEVEL + 1) |-> None],
     level        |-> 0,
     rng_state    |-> Or1(Xor(wrapping_mul31(counter), stack_addr))]

\* [mutant of next_random] the new value is computed but not stored
next_random_keep(x) == x

\* [mutant of next_random] the second shift goes left
next_random_shl17(x) ==
    LET a == Xor(x, Shl(x, 13))
        b == Xor(a, Shl(a, 17))
        c == Xor(b, Shl(b, 5))
    IN  c

next_random(x) ==
    LET a == Xor(x, Shl(x, 13))
        b == Xor(a, Shr(a, 17))
        c == Xor(b, Shl(b, 5))
    IN  c

\* [mutant of random_level_loop] `while level <= MAX_LEVEL`
RECURSIVE random_level_loop_overshoot(_, _)
random_level_loop_overshoot(x, level) ==
    IF level <= MAX_LEVEL
    THEN LET rand_val == next_random(x)
         IN  IF Mod2(rand_val) = 0
             THEN random_level_loop_overshoot(rand_val, level + 1)
             ELSE [level |-> level, rng_state |-> rand_val]
    ELSE [level |-> level, rng_state |-> x]

RECURSIVE random_level_loop(_, _)
random_level_loop(x, level) ==
    IF level < MAX_LEVEL
    THEN LET rand_val == next_random(x)
         IN  IF Mod2(rand_val) = 0
             THEN random_level_loop(rand_val, level + 1)
             ELSE [level |-> level, rng_state |-> rand_val]
    ELSE [level |-> level, rng_state |-> x]

random_level(x) == random_level_loop(x, 0)

get_forward(sl, node_idx, level) ==
    IF node_idx = None
    THEN IF level < Len(sl.head_forward) THEN sl.head_forward[level + 1] ELSE None
    ELSE IF node_idx < Len(sl.nodes) /\ level < Len(sl.nodes[node_idx + 1].forward)
         THEN sl.nodes[node_idx + 1].forward[level + 1]
         ELSE None

\* [mutant of set_forward] the head arm (`None =>`) writes nothing
set_forward_nodes_only(sl, node_idx, level, target_idx) ==
    IF node_idx = None
    THEN sl
    ELSE IF node_idx < Len(sl.nodes) /\ level < Len(sl.nodes[node_idx + 1].forward)
         THEN [sl EXCEPT !.nodes[node_idx + 1].forward[level + 1] = target_idx]
         ELSE sl

set_forward(sl, node_idx, level, target_idx) ==
    IF node_idx = None
    THEN IF level < Len(sl.head_forward)
         THEN [sl EXCEPT !.head_forward[level + 1] = target_idx]
         ELSE sl
    ELSE IF node_idx < Len(sl.nodes) /\ level < Len(sl.nodes[node_idx + 1].forward)
         THEN [sl EXCEPT !.nodes[node_idx + 1].forward[level + 1] = target_idx]
         ELSE sl

\* [mutant of advance] also steps over a node Equal to `value`
RECURSIVE advance_le(_, _, _, _)
advance_le(sl, current_idx, level, value) ==
    LET next_idx == get_forward(sl, current_idx, level)
    IN  IF next_idx # None
        THEN IF next_idx < Len(sl.nodes)
             THEN IF sl.nodes[next_idx + 1].value <= value
                  THEN advance_le(sl, next_idx, level, value)
                  ELSE current_idx
             ELSE current_idx
        ELSE current_idx

\* The inner `while let` of the traversal in insert and delete: advance along
\* `level` while the next node's value is Less than `value`.
RECURSIVE advance(_, _, _, _)
advance(sl, current_idx, level, value) ==
    LET next_idx == get_forward(sl, current_idx, level)
    IN  IF next_idx # None
        THEN IF next_idx < Len(sl.nodes)
             THEN IF sl.nodes[next_idx + 1].value < value
                  THEN advance(sl, next_idx, level, value)
                  ELSE current_idx
             ELSE current_idx
        ELSE current_idx

\* [mutant of find_update] update[level] is recorded before the level is walked
RECURSIVE find_update_stale(_, _, _, _, _)
find_update_stale(sl, value, level, current_idx, update) ==
    LET cur == advance(sl, current_idx, level, value)
        upd == [update EXCEPT ![level + 1] = current_idx]
    IN  IF level = 0
        THEN [update |-> upd, current_idx |-> cur]
        ELSE find_update_stale(sl, value, level - 1, cur, upd)

\* The outer `for level in (0..=self.level).rev()` of insert and delete
\* (the two functions carry the same loop): fills update[level].
RECURSIVE find_update(_, _, _, _, _)
find_update(sl, value, level, current_idx, update) ==
    LET cur == advance(sl, current_idx, level, value)
        upd == [update EXCEPT ![level + 1] = cur]
    IN  IF level = 0
        THEN [update |-> upd, current_idx |-> cur]
        ELSE find_update(sl, value, level - 1, cur, upd)

traverse(sl, value) ==
    find_update(sl, value, sl.level, None, [i \in 1..(MAX_LEVEL + 1) |-> None])

\* [mutant of insert_duplicate] the duplicate check is missing
insert_duplicate_never(sl, next_idx, value) == FALSE

\* insert: `if let Some(next_idx) = self.get_forward(current_idx, 0) {
\*            if next_idx < self.nodes.len() && self.nodes[next_idx].value == value`
insert_duplicate(sl, next_idx, value) ==
    /\ next_idx # None
    /\ next_idx < Len(sl.nodes)
    /\ sl.nodes[next_idx + 1].value = value

\* [mutant of delete_found] the candidate's value is not compared
delete_found_any(sl, target_idx, value) ==
    /\ target_idx # None
    /\ target_idx < Len(sl.nodes)

\* delete: `if let Some(target_idx) = self.get_forward(current_idx, 0) {
\*            if target_idx < self.nodes.len() && self.nodes[target_idx].value == *value`
delete_found(sl, target_idx, value) ==
    /\ target_idx # None
    /\ target_idx < Len(sl.nodes)
    /\ sl.nodes[target_idx + 1].value = value

\* insert: `if new_level > self.level { update[level] = None ...; self.level = new_level }`
raise_update(sl, update, new_level) ==
    IF new_level > sl.level
    THEN [i \in 1..(MAX_LEVEL + 1) |->
            IF (i - 1) >= sl.level + 1 /\ (i - 1) <= new_level THEN None ELSE update[i]]
    ELSE update

\* [mutant of raise_level] `self.level = new_level` is missing
raise_level_never(sl, new_level) == sl

raise_level(sl, new_level) ==
    IF new_level > sl.level THEN [sl EXCEPT !.level = new_level] ELSE sl

\* [mutant of splice_in] `for level in 0..new_level`: the top level is left out
RECURSIVE splice_in_exclusive(_, _, _, _, _, _)
splice_in_exclusive(sl, new_node, update, level, new_level, new_idx) ==
    IF level >= new_level
    THEN [sl |-> sl, new_node |-> new_node]
    ELSE LET nn  == [new_node EXCEPT !.forward[level + 1] =
                        get_forward(sl, update[level + 1], level)]
             sl1 == set_forward(sl, update[level + 1], level, new_idx)
         IN  splice_in_exclusive(sl1, nn, update, level + 1, new_level, new_idx)

\* [mutant of splice_in] the new node is not given its predecessor's successor
RECURSIVE splice_in_drop_tail(_, _, _, _, _, _)
splice_in_drop_tail(sl, new_node, update, level, new_level, new_idx) ==
    IF level > new_level
    THEN [sl |-> sl, new_node |-> new_node]
    ELSE LET sl1 == set_forward(sl, update[level + 1], level, new_idx)
         IN  splice_in_drop_tail(sl1, new_node, update, level + 1, new_level, new_idx)

\* insert: `for level in 0..=new_level`, read the predecessor's successor into
\* the new node, then point the predecessor at new_idx.
RECURSIVE splice_in(_, _, _, _, _, _)
splice_in(sl, new_node, update, level, new_level, new_idx) ==
    IF level > new_level
    THEN [sl |-> sl, new_node |-> new_node]
    ELSE LET nn  == [new_node EXCEPT !.forward[level + 1] =
                        get_forward(sl, update[level + 1], level)]
             sl1 == set_forward(sl, update[level + 1], level, new_idx)
         IN  splice_in(sl1, nn, update, level + 1, new_level, new_idx)

\* [mutant of insert] random_level is called before the duplicate check
insert_draw_first(sl, value) ==
    LET t        == traverse(sl, value)
        next_idx == get_forward(sl, t.current_idx, 0)
        rl       == random_level(sl.rng_state)
    IN  IF insert_duplicate(sl, next_idx, value)
        THEN [sl |-> [sl EXCEPT !.rng_state = rl.rng_state], log |-> "already exists"]
        ELSE LET new_level == rl.level
                 update    == raise_update(sl, t.update, new_level)
                 sl1       == raise_level([sl EXCEPT !.rng_state = rl.rng_state],
                                          new_level)
                 new_idx   == Len(sl1.nodes)
                 sp        == splice_in(sl1, Node_new(value, new_level), update,
                                        0, new_level, new_idx)
             IN  [sl  |-> [sp.sl EXCEPT !.nodes = Append(sp.sl.nodes, sp.new_node)],
                  log |-> "inserted"]

insert(sl, value) ==
    LET t        == traverse(sl, value)
        next_idx == get_forward(sl, t.current_idx, 0)
    IN  IF insert_duplicate(sl, next_idx, value)
        THEN [sl |-> sl, log |-> "already exists"]
        ELSE LET rl        == random_level(sl.rng_state)
                 new_level == rl.level
                 update    == raise_update(sl, t.update, new_level)
                 sl1       == raise_level([sl EXCEPT !.rng_state = rl.rng_state],
                                          new_level)
                 new_idx   == Len(sl1.nodes)
                 sp        == splice_in(sl1, Node_new(value, new_level), update,
                                        0, new_level, new_idx)
             IN  [sl  |-> [sp.sl EXCEPT !.nodes = Append(sp.sl.nodes, sp.new_node)],
                  log |-> "inserted"]

\* [mutant of search_advance] Equal is handled like Greater
RECURSIVE search_advance_noeq(_, _, _, _)
search_advance_noeq(sl, current_idx, level, value) ==
    LET next_idx == get_forward(sl, current_idx, level)
    IN  IF next_idx # None
        THEN IF next_idx < Len(sl.nodes)
             THEN IF sl.nodes[next_idx + 1].value < value
                  THEN search_advance_noeq(sl, next_idx, level, value)
                  ELSE [found |-> FALSE, current_idx |-> current_idx]
             ELSE [found |-> FALSE, current_idx |-> current_idx]
        ELSE [found |-> FALSE, current_idx |-> current_idx]

\* search: the inner `while let`, with the early return on Equal.
RECURSIVE search_advance(_, _, _, _)
search_advance(sl, current_idx, level, value) ==
    LET next_idx == get_forward(sl, current_idx, level)
    IN  IF next_idx # None
        THEN IF next_idx < Len(sl.nodes)
             THEN IF sl.nodes[next_idx + 1].value < value
                  THEN search_advance(sl, next_idx, level, value)
                  ELSE IF sl.nodes[next_idx + 1].value = value
                       THEN [found |-> TRUE, current_idx |-> current_idx]
                       ELSE [found |-> FALSE, current_idx |-> current_idx]
             ELSE [found |-> FALSE, current_idx |-> current_idx]
        ELSE [found |-> FALSE, current_idx |-> current_idx]

\* [mutant of search_levels] `for level in (1..=self.level).rev()`: level 0 is not walked
RECURSIVE search_levels_skip_zero(_, _, _, _)
search_levels_skip_zero(sl, current_idx, level, value) ==
    IF level = 0
    THEN FALSE
    ELSE LET r == search_advance(sl, current_idx, level, value)
         IN  IF r.found
             THEN TRUE
             ELSE search_levels_skip_zero(sl, r.current_idx, level - 1, value)

RECURSIVE search_levels(_, _, _, _)
search_levels(sl, current_idx, level, value) ==
    LET r == search_advance(sl, current_idx, level, value)
    IN  IF r.found
        THEN TRUE
        ELSE IF level = 0
             THEN FALSE
             ELSE search_levels(sl, r.current_idx, level - 1, value)

search(sl, value) == search_levels(sl, None, sl.level, value)

\* [mutant of unlink] every level is given the target's level-0 successor
RECURSIVE unlink_level0_successor(_, _, _, _, _)
unlink_level0_successor(sl, update, target_idx, level, target_level) ==
    IF level > target_level
    THEN sl
    ELSE LET sl1 == IF level <= sl.level
                    THEN set_forward(sl, update[level + 1], level,
                                     sl.nodes[target_idx + 1].forward[1])
                    ELSE sl
         IN  unlink_level0_successor(sl1, update, target_idx, level + 1, target_level)

\* delete: `for level in 0..=target_level { if level <= self.level { ... } }`
RECURSIVE unlink(_, _, _, _, _)
unlink(sl, update, target_idx, level, target_level) ==
    IF level > target_level
    THEN sl
    ELSE LET sl1 == IF level <= sl.level
                    THEN set_forward(sl, update[level + 1], level,
                                     sl.nodes[target_idx + 1].forward[level + 1])
                    ELSE sl
         IN  unlink(sl1, update, target_idx, level + 1, target_level)

\* [mutant of remove] Vec::swap_remove: the last node takes the removed place
remove_swap(nodes, target_idx) ==
    [i \in 1..(Len(nodes) - 1) |-> IF i - 1 = target_idx THEN nodes[Len(nodes)] ELSE nodes[i]]

\* [mutant of remove] the node is left in the arena
remove_keep(nodes, target_idx) == nodes

\* Vec::remove(target_idx)
remove(nodes, target_idx) ==
    [i \in 1..(Len(nodes) - 1) |-> IF i - 1 < target_idx THEN nodes[i] ELSE nodes[i + 1]]

\* [mutant of renumber_head] `for level in 0..self.level`: the top level is left out
renumber_head_exclusive(sl, target_idx) ==
    [sl EXCEPT !.head_forward =
        [i \in 1..Len(sl.head_forward) |->
            LET forward_idx == sl.head_forward[i]
            IN  IF (i - 1) < sl.level /\ forward_idx # None
                THEN IF forward_idx > target_idx
                     THEN forward_idx - 1
                     ELSE IF forward_idx = target_idx THEN None ELSE forward_idx
                ELSE forward_idx]]

\* [mutant of renumber_head] the head's entries are not renumbered
renumber_head_skip(sl, target_idx) == sl

\* delete: `for level in 0..=self.level` over head_forward
renumber_head(sl, target_idx) ==
    [sl EXCEPT !.head_forward =
        [i \in 1..Len(sl.head_forward) |->
            LET forward_idx == sl.head_forward[i]
            IN  IF (i - 1) <= sl.level /\ forward_idx # None
                THEN IF forward_idx > target_idx
                     THEN forward_idx - 1
                     ELSE IF forward_idx = target_idx THEN None ELSE forward_idx
                ELSE forward_idx]]

\* [mutant of renumber_nodes] the pass also pops a trailing empty entry of
\* every node that has more than one entry
renumber_nodes_trim(sl, target_idx) ==
    [sl EXCEPT !.nodes =
        [n \in 1..Len(sl.nodes) |->
            [sl.nodes[n] EXCEPT !.forward =
                LET fw  == sl.nodes[n].forward
                    cut == IF Len(fw) > 1 /\ fw[Len(fw)] = None
                           THEN Len(fw) - 1 ELSE Len(fw)
                IN  [i \in 1..cut |->
                        IF fw[i] # None /\ fw[i] > target_idx
                        THEN fw[i] - 1
                        ELSE fw[i]]]]]

\* [mutant of renumber_nodes] the nodes' entries are not renumbered
renumber_nodes_skip(sl, target_idx) == sl

\* delete: `for node in &mut self.nodes { for forward_ref in &mut node.forward`
renumber_nodes(sl, target_idx) ==
    [sl EXCEPT !.nodes =
        [n \in 1..Len(sl.nodes) |->
            [sl.nodes[n] EXCEPT !.forward =
                [i \in 1..Len(sl.nodes[n].forward) |->
                    LET forward_idx == sl.nodes[n].forward[i]
                    IN  IF forward_idx # None /\ forward_idx > target_idx
                        THEN forward_idx - 1
                        ELSE forward_idx]]]]

\* [mutant of shrink_level] `while self.level > 1`
RECURSIVE shrink_level_stop_at_one(_)
shrink_level_stop_at_one(sl) ==
    IF sl.level > 1 /\ sl.head_forward[sl.level + 1] = None
    THEN shrink_level_stop_at_one([sl EXCEPT !.level = sl.level - 1])
    ELSE sl

\* [mutant of shrink_level] `while self.level > 0`: the head is not consulted
shrink_level_to_zero(sl) == [sl EXCEPT !.level = 0]

\* [mutant of shrink_level] `if` in place of `while`: one step down at most
shrink_level_once(sl) ==
    IF sl.level > 0 /\ sl.head_forward[sl.level + 1] = None
    THEN [sl EXCEPT !.level = sl.level - 1]
    ELSE sl

\* [mutant of shrink_level] the level is never lowered
shrink_level_never(sl) == sl

\* delete: `while self.level > 0 && self.head_forward[self.level].is_none()`
RECURSIVE shrink_level(_)
shrink_level(sl) ==
    IF sl.level > 0 /\ sl.head_forward[sl.level + 1] = None
    THEN shrink_level([sl EXCEPT !.level = sl.level - 1])
    ELSE sl

delete(sl, value) ==
    LET t          == traverse(sl, value)
        target_idx == get_forward(sl, t.current_idx, 0)
    IN  IF delete_found(sl, target_idx, value)
        THEN LET target_level == Len(sl.nodes[target_idx + 1].forward) - 1
                 sl1 == unlink(sl, t.update, target_idx, 0, target_level)
                 sl2 == [sl1 EXCEPT !.nodes = remove(sl1.nodes, target_idx)]
                 sl3 == renumber_head(sl2, target_idx)
                 sl4 == renumber_nodes(sl3, target_idx)
                 sl5 == shrink_level(sl4)
             IN  [sl |-> sl5, ret |-> TRUE, log |-> "deleted", removed |-> target_idx]
        ELSE [sl |-> sl, ret |-> FALSE, log |-> "not found", removed |-> None]

len(sl) == Len(sl.nodes)

is_empty(sl) == Len(sl.nodes) = 0

\* display: `while let Some(idx) = temp_idx`, the level-0 walk into all_nodes
RECURSIVE display_all_nodes(_, _)
display_all_nodes(sl, temp_idx) ==
    IF temp_idx # None
    THEN IF temp_idx < Len(sl.nodes)
         THEN <<temp_idx>> \o display_all_nodes(sl, sl.nodes[temp_idx + 1].forward[1])
         ELSE << >>
    ELSE << >>

\* display: `while position < all_nodes.len() && all_nodes[position].0 != next_idx`
RECURSIVE display_skip(_, _, _)
display_skip(all_nodes, position, next_idx) ==
    IF position < Len(all_nodes) /\ all_nodes[position + 1] # next_idx
    THEN display_skip(all_nodes, position + 1, next_idx)
    ELSE position

\* A printed row is a sequence of cells: <<v>> for " -> v", << >> for a dash.
Dashes(n) == [i \in 1..n |-> << >>]

\* display: `while let Some(next_idx) = self.get_forward(current_idx, level)`
RECURSIVE display_row(_, _, _, _, _, _)
display_row(sl, all_nodes, level, current_idx, position, row) ==
    LET next_idx == get_forward(sl, current_idx, level)
    IN  IF next_idx # None /\ next_idx < Len(sl.nodes)
        THEN LET p == display_skip(all_nodes, position, next_idx)
             IN  IF p < Len(all_nodes)
                 THEN display_row(sl, all_nodes, level, next_idx, p + 1,
                                  row \o Dashes(p - position)
                                      \o << <<sl.nodes[next_idx + 1].value>> >>)
                 ELSE [position |-> p, row |-> row \o Dashes(p - position)]
        ELSE [position |-> position, row |-> row]

\* display: one `for level` iteration, with the trailing dashes
display_level(sl, level) ==
    LET all_nodes == display_all_nodes(sl, sl.head_forward[1])
        r         == display_row(sl, all_nodes, level, None, 0, << >>)
    IN  r.row \o Dashes(Len(all_nodes) - r.position)

\* What display prints: the rows from level `self.level` down to level 0
display(sl) ==
    IF is_empty(sl)
    THEN [empty |-> TRUE, rows |-> << >>]
    ELSE [empty |-> FALSE,
          rows  |-> [k \in 1..(sl.level + 1) |-> display_level(sl, sl.level + 1 - k)]]

\* What display_detailed prints
display_detailed(sl) ==
    IF is_empty(sl)
    THEN [total |-> len(sl), level |-> sl.level, empty |-> TRUE,
          nodes |-> << >>, head |-> << >>]
    ELSE [total |-> len(sl), level |-> sl.level, empty |-> FALSE,
          nodes |-> [idx \in 1..Len(sl.nodes) |->
                        [value   |-> sl.nodes[idx].value,
                         level   |-> Len(sl.nodes[idx].forward) - 1,
                         forward |-> sl.nodes[idx].forward]],
          head  |-> sl.head_forward]

----------------------------------------------------------------------------
\* The index expressions of the operations that no range check guards
\* (`v[i]` panics when i >= v.len(), `n - 1` on a usize panics when n = 0).
\* Each operator is TRUE when the operation, run on `sl`, keeps them in range.

\* display: `self.head_forward[0]`, then `self.nodes[idx].forward[0]` along the walk
RECURSIVE display_walk_in_range(_, _)
display_walk_in_range(sl, temp_idx) ==
    IF temp_idx # None /\ temp_idx < Len(sl.nodes)
    THEN /\ Len(sl.nodes[temp_idx + 1].forward) > 0
         /\ display_walk_in_range(sl, sl.nodes[temp_idx + 1].forward[1])
    ELSE TRUE

display_in_range(sl) ==
    is_empty(sl) \/
        /\ Len(sl.head_forward) > 0
        /\ display_walk_in_range(sl, sl.head_forward[1])

\* display_detailed: `node.forward.len() - 1` for every node
display_detailed_in_range(sl) ==
    is_empty(sl) \/ \A idx \in 1..Len(sl.nodes) : Len(sl.nodes[idx].forward) >= 1

\* insert: `update[level]` for level in 0..=self.level and, past the
\* duplicate check, for level up to new_level (update has MAX_LEVEL+1
\* entries, new_node.forward has new_level+1); then the closing display().
insert_in_range(sl, value) ==
    LET t        == traverse(sl, value)
        next_idx == get_forward(sl, t.current_idx, 0)
    IN  /\ sl.level < MAX_LEVEL + 1
        /\ IF insert_duplicate(sl, next_idx, value)
           THEN display_in_range(sl)
           ELSE LET new_level == random_level(sl.rng_state).level
                IN  /\ new_level < MAX_LEVEL + 1
                    /\ new_level < Len(Node_new(value, new_level).forward)
                    /\ display_in_range(insert(sl, value).sl)

\* delete: `update[level]` for level in 0..=self.level; when the target is
\* found, `forward.len() - 1`, `forward[level]` and `update[level]` in the
\* splice loop, `head_forward[level]` for level in 0..=self.level, the
\* decrement of an index above target_idx, `head_forward[self.level]` in the
\* shrink loop; then the closing display().
delete_in_range(sl, value) ==
    LET t          == traverse(sl, value)
        target_idx == get_forward(sl, t.current_idx, 0)
    IN  /\ sl.level < MAX_LEVEL + 1
        /\ IF delete_found(sl, target_idx, value)
           THEN LET forward == sl.nodes[target_idx + 1].forward
                IN  /\ Len(forward) >= 1
                    /\ \A level \in 0..(Len(forward) - 1) :
                          level <= sl.level =>
                              level < Len(forward) /\ level < MAX_LEVEL + 1
                    /\ sl.level < Len(sl.head_forward)
                    /\ \A idx \in 1..Len(sl.nodes) :
                          \A i \in 1..Len(sl.nodes[idx].forward) :
                              sl.nodes[idx].forward[i] > target_idx =>
                                  sl.nodes[idx].forward[i] - 1 >= 0
                    /\ display_in_range(delete(sl, value).sl)
           ELSE display_in_range(sl)

----------------------------------------------------------------------------
\* The loops, one iteration at a time.

\* search, where a walk of a level ends (`break`, or the `while let` finds
\* None): the `for` loop goes one level down, or is over and search returns
\* false.
search_break(current_idx, level) ==
    IF level = 0
    THEN [done |-> TRUE, found |-> FALSE, current_idx |-> current_idx, level |-> level]
    ELSE [done |-> FALSE, found |-> FALSE, current_idx |-> current_idx,
          level |-> level - 1]

\* [mutant of search_step] `Ordering::Less` leaves current_idx where it is
search_step_stay(sl, current_idx, level, value) ==
    LET next_idx == get_forward(sl, current_idx, level)
    IN  IF next_idx # None
        THEN IF next_idx < Len(sl.nodes)
             THEN IF sl.nodes[next_idx + 1].value < value
                  THEN [done |-> FALSE, found |-> FALSE,
                        current_idx |-> current_idx, level |-> level]
                  ELSE IF sl.nodes[next_idx + 1].value = value
                       THEN [done |-> TRUE, found |-> TRUE,
                             current_idx |-> current_idx, level |-> level]
                       ELSE search_break(current_idx, level)
             ELSE search_break(current_idx, level)
        ELSE search_break(current_idx, level)

\* search: one evaluation of `while let Some(next_idx) = self.get_forward(..)`
\* and of its body
search_step(sl, current_idx, level, value) ==
    LET next_idx == get_forward(sl, current_idx, level)
    IN  IF next_idx # None
        THEN IF next_idx < Len(sl.nodes)
             THEN IF sl.nodes[next_idx + 1].value < value
                  THEN [done |-> FALSE, found |-> FALSE,
                        current_idx |-> next_idx, level |-> level]
                  ELSE IF sl.nodes[next_idx + 1].value = value
                       THEN [done |-> TRUE, found |-> TRUE,
                             current_idx |-> current_idx, level |-> level]
                       ELSE search_break(current_idx, level)
             ELSE search_break(current_idx, level)
        ELSE search_break(current_idx, level)

\* The values the next n calls of next_random return, from state x (the
\* generator is deterministic, so they are fixed when random_level is entered)
RECURSIVE draw_tape(_, _)
draw_tape(x, n) ==
    IF n = 0
    THEN << >>
    ELSE LET rand_val == next_random(x)
         IN  <<rand_val>> \o draw_tape(rand_val, n - 1)

\* [mutant of random_level_step] `level += 1` is done before the parity test,
\* so the odd draw is counted too
random_level_step_count_last(x, rand_val, level) ==
    IF level < MAX_LEVEL
    THEN IF Mod2(rand_val) = 0
         THEN [done |-> FALSE, drew |-> TRUE, level |-> level + 1,
               rng_state |-> rand_val]
         ELSE [done |-> TRUE, drew |-> TRUE, level |-> level + 1,
               rng_state |-> rand_val]
    ELSE [done |-> TRUE, drew |-> FALSE, level |-> level, rng_state |-> x]

\* random_level: one evaluation of `while level < MAX_LEVEL` and of its body;
\* rand_val is what `self.next_random()` returns from state x
random_level_step(x, rand_val, level) ==
    IF level < MAX_LEVEL
    THEN IF Mod2(rand_val) = 0
         THEN [done |-> FALSE, drew |-> TRUE, level |-> level + 1,
               rng_state |-> rand_val]
         ELSE [done |-> TRUE, drew |-> TRUE, level |-> level,
               rng_state |-> rand_val]
    ELSE [done |-> TRUE, drew |-> FALSE, level |-> level, rng_state |-> x]

\* insert: one iteration of `for level in 0..=new_level`
splice_step(sl, new_node, update, level, new_idx) ==
    [new_node |-> [new_node EXCEPT !.forward[level + 1] =
                      get_forward(sl, update[level + 1], level)],
     sl       |-> set_forward(sl, update[level + 1], level, new_idx)]

\* delete of a value that is found, up to the renumbering (before
\* `while self.level > 0 && ...`)
delete_compact(sl, value) ==
    LET t            == traverse(sl, value)
        target_idx   == get_forward(sl, t.current_idx, 0)
        target_level == Len(sl.nodes[target_idx + 1].forward) - 1
        sl1 == unlink(sl, t.update, target_idx, 0, target_level)
        sl2 == [sl1 EXCEPT !.nodes = remove(sl1.nodes, target_idx)]
        sl3 == renumber_head(sl2, target_idx)
    IN  [sl |-> renumber_nodes(sl3, target_idx), removed |-> target_idx]

\* delete: one evaluation of `while self.level > 0 &&
\* self.head_forward[self.level].is_none()` and of its body
shrink_step(sl) ==
    IF sl.level > 0 /\ sl.head_forward[sl.level + 1] = None
    THEN [done |-> FALSE, sl |-> [sl EXCEPT !.level = sl.level - 1]]
    ELSE [done |-> TRUE, sl |-> sl]

----------------------------------------------------------------------------
\* The defensive arms of the operations: the `else` of
\* `if idx < self.nodes.len() && level < self.nodes[idx].forward.len()` in
\* get_forward and set_forward (and `.get(level)` / `level <
\* self.head_forward.len()` for the head), the `else { break }` of
\* `if next_idx < self.nodes.len()` in the walks, the skipped iteration of
\* `if level <= self.level` in delete. Each operator below is TRUE when the
\* operation, run on `sl`, takes none of them.

\* get_forward / set_forward take their indexing arm
forward_in_range(sl, node_idx, level) ==
    IF node_idx = None
    THEN level < Len(sl.head_forward)
    ELSE node_idx < Len(sl.nodes) /\ level < Len(sl.nodes[node_idx + 1].forward)

\* The `while let` walk of one level (insert, delete and search leave it at
\* the first node that is not Less)
RECURSIVE advance_strict(_, _, _, _)
advance_strict(sl, current_idx, level, value) ==
    /\ forward_in_range(sl, current_idx, level)
    /\ LET next_idx == get_forward(sl, current_idx, level)
       IN  IF next_idx # None
           THEN /\ next_idx < Len(sl.nodes)
                /\ IF sl.nodes[next_idx + 1].value < value
                   THEN advance_strict(sl, next_idx, level, value)
                   ELSE TRUE
           ELSE TRUE

\* The `for level in (0..=self.level).rev()` of insert and delete: level
\* self.level is walked from the head, each lower one from where the level
\* above stopped (update[level + 1]).
traverse_strict(sl, value) ==
    LET t == traverse(sl, value)
    IN  \A level \in 0..sl.level :
            advance_strict(sl,
                           IF level = sl.level THEN None ELSE t.update[level + 2],
                           level, value)

\* insert: the traversal, the duplicate check and, past it, the calls
\* get_forward(update[level], level) and set_forward(update[level], level, _)
\* for level in 0..=new_level (set_forward changes no length, so the calls
\* are in range during the loop when they are before it).
insert_strict(sl, value) ==
    LET t        == traverse(sl, value)
        next_idx == get_forward(sl, t.current_idx, 0)
    IN  /\ traverse_strict(sl, value)
        /\ forward_in_range(sl, t.current_idx, 0)
        /\ next_idx # None => next_idx < Len(sl.nodes)
        /\ ~insert_duplicate(sl, next_idx, value) =>
              LET new_level == random_level(sl.rng_state).level
                  update    == raise_update(sl, t.update, new_level)
              IN  \A level \in 0..new_level :
                      forward_in_range(sl, update[level + 1], level)

\* delete: the traversal, the check of the candidate and, when it is the
\* target, `if level <= self.level` and set_forward(update[level], level, _)
\* for level in 0..=target_level.
delete_strict(sl, value) ==
    LET t          == traverse(sl, value)
        target_idx == get_forward(sl, t.current_idx, 0)
    IN  /\ traverse_strict(sl, value)
        /\ forward_in_range(sl, t.current_idx, 0)
        /\ target_idx # None => target_idx < Len(sl.nodes)
        /\ delete_found(sl, target_idx, value) =>
              \A level \in 0..(Len(sl.nodes[target_idx + 1].forward) - 1) :
                  /\ level <= sl.level
                  /\ forward_in_range(sl, t.update[level + 1], level)

\* search: the walk of each level it visits, down to the one where it
\* returns
RECURSIVE search_levels_strict(_, _, _, _)
search_levels_strict(sl, current_idx, level, value) ==
    /\ advance_strict(sl, current_idx, level, value)
    /\ LET r == search_advance(sl, current_idx, level, value)
       IN  IF r.found \/ level = 0
           THEN TRUE
           ELSE search_levels_strict(sl, r.current_idx, level - 1, value)

search_strict(sl, value) == search_levels_strict(sl, None, sl.level, value)

----------------------------------------------------------------------------
\* The state machine: one list, driven by a caller.

VARIABLES
    nodes,          \* the arena
    head_forward,   \* the head's forward entries
    level,          \* the list level
    rng_state,      \* the generator state
    op,             \* the last public operation called
    arg,            \* its argument (0 for none)
    ret,            \* its return value: << >> for none, <<b>> for a bool
    log,            \* the outcome it printed
    live,           \* history: the values inserted and not deleted since
    draws,          \* history: the number of random_level calls so far
    old_level,      \* history: the list level before the last operation
    removed,        \* history: the arena position the last operation removed
    order,          \* history: the live values, oldest insertion first
    shown,          \* what the last operation rendered: << >> or <<rendering>>
    twin,           \* a second list given the same calls (<< >> when there is none)
    twin_ret,       \* what the last call returned on the second list
    pc,             \* where the call in progress stands ("idle" between calls)
    frame,          \* the locals of the call in progress (<< >> between calls)
    seed_counter,   \* the static SEED_COUNTER
    calls,          \* per thread, where its new() stands and the list it built
    fetched,        \* history: the values fetch_add returned, in order
    seeded          \* history: counter, address and seed of each list built

seed_vars == <<seed_counter, calls, fetched, seeded>>

vars ==
    <<nodes, head_forward, level, rng_state, op, arg, ret, log, live, draws,
      old_level, removed, order, shown, twin, twin_ret, pc, frame, seed_counter,
      calls, fetched, seeded>>

Self ==
    [nodes |-> nodes, head_forward |-> head_forward, level |-> level,
     rng_state |-> rng_state]

Install(sl) ==
    /\ nodes' = sl.nodes
    /\ head_forward' = sl.head_forward
    /\ level' = sl.level
    /\ rng_state' = sl.rng_state

Init ==
    \E stack_addr \in StackAddrs :
        LET sl == new(SEED_COUNTER, stack_addr)
        IN  /\ nodes = sl.nodes
            /\ head_forward = sl.head_forward
            /\ level = sl.level
            /\ rng_state = sl.rng_state
            /\ op = "new"
            /\ arg = 0
            /\ ret = << >>
            /\ log = ""
            /\ live = {}
            /\ draws = 0
            /\ old_level = 0
            /\ removed = None
            /\ order = << >>
            /\ shown = << >>
            /\ twin = << >>
            /\ twin_ret = << >>
            /\ pc = "idle"
            /\ frame = << >>
            /\ seed_counter = fetch_add(<<0, SEED_COUNTER>>).now
            /\ calls = << >>
            /\ fetched = << >>
            /\ seeded = {}

\* (r is bound by \E over a singleton so that the call is evaluated once)
Insert(value) ==
    \E r \in {insert(Self, value)} :
        /\ r.log = "inserted" => draws < MaxInserts
        /\ Install(r.sl)
        /\ op' = "insert"
        /\ arg' = value
        /\ ret' = << >>
        /\ log' = r.log
        /\ live' = live \cup {value}
        /\ draws' = IF r.log = "inserted" THEN draws + 1 ELSE draws
        /\ order' = IF value \in live THEN order ELSE Append(order, value)
        /\ old_level' = level
        /\ removed' = None
        /\ shown' = <<display(r.sl)>>
        /\ UNCHANGED <<twin, twin_ret, pc, frame, seed_vars>>

\* [mutant of Search] the search draws from the generator
Search_advances_rng(value) ==
    LET found == search(Self, value)
    IN  /\ op' = "search"
        /\ arg' = value
        /\ ret' = <<found>>
        /\ log' = IF found THEN "found" ELSE "not found"
        /\ old_level' = level
        /\ removed' = None
        /\ shown' = << >>
        /\ UNCHANGED <<twin, twin_ret, pc, frame, seed_vars>>
        /\ rng_state' = next_random(rng_state)
        /\ UNCHANGED <<nodes, head_forward, level, live, draws, order>>

Search(value) ==
    LET found == search(Self, value)
    IN  /\ op' = "search"
        /\ arg' = value
        /\ ret' = <<found>>
        /\ log' = IF found THEN "found" ELSE "not found"
        /\ old_level' = level
        /\ removed' = None
        /\ shown' = << >>
        /\ UNCHANGED <<twin, twin_ret, pc, frame, seed_vars>>
        /\ UNCHANGED <<nodes, head_forward, level, rng_state, live, draws, order>>

Delete(value) ==
    \E r \in {delete(Self, value)} :
        /\ Install(r.sl)
        /\ op' = "delete"
        /\ arg' = value
        /\ ret' = <<r.ret>>
        /\ log' = r.log
        /\ live' = live \ {value}
        /\ order' = SelectSeq(order, LAMBDA w : w # value)
        /\ old_level' = level
        /\ removed' = r.removed
        /\ shown' = <<display(r.sl)>>
        /\ UNCHANGED <<twin, twin_ret, pc, frame, seed_vars>>
        /\ UNCHANGED draws

\* The calls that take &self and return or print something
LenCall ==
    /\ op' = "len"
    /\ arg' = 0
    /\ ret' = <<len(Self)>>
    /\ log' = ""
    /\ old_level' = level
    /\ removed' = None
    /\ shown' = << >>
    /\ UNCHANGED <<twin, twin_ret, pc, frame, seed_vars>>
    /\ UNCHANGED <<nodes, head_forward, level, rng_state, live, draws, order>>

IsEmptyCall ==
    /\ op' = "is_empty"
    /\ arg' = 0
    /\ ret' = <<is_empty(Self)>>
    /\ log' = ""
    /\ old_level' = level
    /\ removed' = None
    /\ shown' = << >>
    /\ UNCHANGED <<twin, twin_ret, pc, frame, seed_vars>>
    /\ UNCHANGED <<nodes, head_forward, level, rng_state, live, draws, order>>

Display ==
    /\ op' = "display"
    /\ arg' = 0
    /\ ret' = << >>
    /\ log' = IF is_empty(Self) THEN "Empty skip list" ELSE ""
    /\ old_level' = level
    /\ removed' = None
    /\ shown' = <<display(Self)>>
    /\ UNCHANGED <<twin, twin_ret, pc, frame, seed_vars>>
    /\ UNCHANGED <<nodes, head_forward, level, rng_state, live, draws, order>>

DisplayDetailed ==
    /\ op' = "display_detailed"
    /\ arg' = 0
    /\ ret' = << >>
    /\ log' = IF is_empty(Self) THEN "List is empty" ELSE ""
    /\ old_level' = level
    /\ removed' = None
    /\ shown' = <<display_detailed(Self)>>
    /\ UNCHANGED <<twin, twin_ret, pc, frame, seed_vars>>
    /\ UNCHANGED <<nodes, head_forward, level, rng_state, live, draws, order>>

Next ==
    \/ \E value \in Values : Insert(value)
    \/ \E value \in Values : Search(value)
    \/ \E value \in Values : Delete(value)
    \/ LenCall
    \/ IsEmptyCall
    \/ Display
    \/ DisplayDetailed

Spec == Init /\ [][Next]_vars

----------------------------------------------------------------------------
\* Two lists, constructed with different stack addresses (hence different
\* seeds), driven by one caller that makes every call on both.

TwinAddrs ==
    { << <<4096, 344>>, <<4096, 576>> >>,
      << <<4096, 344>>, <<4126, 41912>> >>,
      << <<4096, 576>>, <<4126, 41912>> >>,
      << <<4096, 260>>, <<4096, 284>> >> }

PairInit ==
    \E pair \in TwinAddrs :
        LET sl == new(SEED_COUNTER, pair[1])
        IN  /\ nodes = sl.nodes
            /\ head_forward = sl.head_forward
            /\ level = sl.level
            /\ rng_state = sl.rng_state
            /\ op = "new"
            /\ arg = 0
            /\ ret = << >>
            /\ log = ""
            /\ live = {}
            /\ draws = 0
            /\ old_level = 0
            /\ removed = None
            /\ order = << >>
            /\ shown = << >>
            /\ twin = new(SEED_COUNTER, pair[2])
            /\ twin_ret = << >>
            /\ pc = "idle"
            /\ frame = << >>
            /\ seed_counter = fetch_add(<<0, SEED_COUNTER>>).now
            /\ calls = << >>
            /\ fetched = << >>
            /\ seeded = {}

PairInsert(value) ==
    \E r \in {insert(Self, value)} :
        /\ r.log = "inserted" => draws < MaxInserts
        /\ Install(r.sl)
        /\ op' = "insert"
        /\ arg' = value
        /\ ret' = << >>
        /\ log' = r.log
        /\ live' = live \cup {value}
        /\ draws' = IF r.log = "inserted" THEN draws + 1 ELSE draws
        /\ order' = IF value \in live THEN order ELSE Append(order, value)
        /\ old_level' = level
        /\ removed' = None
        /\ shown' = <<display(r.sl)>>
        /\ twin' = insert(twin, value).sl
        /\ twin_ret' = << >>
        /\ UNCHANGED <<pc, frame, seed_vars>>

PairSearch(value) ==
    /\ op' = "search"
    /\ arg' = value
    /\ ret' = <<search(Self, value)>>
    /\ log' = IF search(Self, value) THEN "found" ELSE "not found"
    /\ old_level' = level
    /\ removed' = None
    /\ shown' = << >>
    /\ twin_ret' = <<search(twin, value)>>
    /\ UNCHANGED <<pc, frame, seed_vars>>
    /\ UNCHANGED <<nodes, head_forward, level, rng_state, live, draws, order, twin>>

PairDelete(value) ==
    \E r \in {delete(Self, value)} :
    \E tr \in {delete(twin, value)} :
        /\ Install(r.sl)
        /\ op' = "delete"
        /\ arg' = value
        /\ ret' = <<r.ret>>
        /\ log' = r.log
        /\ live' = live \ {value}
        /\ order' = SelectSeq(order, LAMBDA w : w # value)
        /\ old_level' = level
        /\ removed' = r.removed
        /\ shown' = <<display(r.sl)>>
        /\ twin' = tr.sl
        /\ twin_ret' = <<tr.ret>>
        /\ UNCHANGED <<pc, frame, seed_vars>>
        /\ UNCHANGED draws

PairLen ==
    /\ op' = "len"
    /\ arg' = 0
    /\ ret' = <<len(Self)>>
    /\ log' = ""
    /\ old_level' = level
    /\ removed' = None
    /\ shown' = << >>
    /\ twin_ret' = <<len(twin)>>
    /\ UNCHANGED <<pc, frame, seed_vars>>
    /\ UNCHANGED <<nodes, head_forward, level, rng_state, live, draws, order, twin>>

PairIsEmpty ==
    /\ op' = "is_empty"
    /\ arg' = 0
    /\ ret' = <<is_empty(Self)>>
    /\ log' = ""
    /\ old_level' = level
    /\ removed' = None
    /\ shown' = << >>
    /\ twin_ret' = <<is_empty(twin)>>
    /\ UNCHANGED <<pc, frame, seed_vars>>
    /\ UNCHANGED <<nodes, head_forward, level, rng_state, live, draws, order, twin>>

PairNext ==
    \/ \E value \in Values : PairInsert(value)
    \/ \E value \in Values : PairSearch(value)
    \/ \E value \in Values : PairDelete(value)
    \/ PairLen
    \/ PairIsEmpty

PairSpec == PairInit /\ [][PairNext]_vars

----------------------------------------------------------------------------
\* One list whose calls run one loop iteration at a time: the walk of search,
\* the draws of random_level and the splice loop inside insert, the
\* level-shrink loop of delete. The traversal of insert and delete (the same
\* walk as search's, without the early return) and delete's splice and
\* renumbering loops, which run over fixed ranges, are taken in one step. A
\* call is made only between calls (pc = "idle"), and a call in progress goes
\* on until it returns.

StepAddrs == { <<4096, 344>>, <<4096, 576>>, <<4126, 41912>> }

StepInit ==
    \E stack_addr \in StepAddrs :
        LET sl == new(SEED_COUNTER, stack_addr)
        IN  /\ nodes = sl.nodes
            /\ head_forward = sl.head_forward
            /\ level = sl.level
            /\ rng_state = sl.rng_state
            /\ op = "new"
            /\ arg = 0
            /\ ret = << >>
            /\ log = ""
            /\ live = {}
            /\ draws = 0
            /\ old_level = 0
            /\ removed = None
            /\ order = << >>
            /\ shown = << >>
            /\ twin = << >>
            /\ twin_ret = << >>
            /\ pc = "idle"
            /\ frame = << >>
            /\ seed_counter = fetch_add(<<0, SEED_COUNTER>>).now
            /\ calls = << >>
            /\ fetched = << >>
            /\ seeded = {}

\* search is called: `let mut current_idx = None`, level = self.level
SearchCall(value) ==
    /\ pc = "idle"
    /\ pc' = "search"
    /\ frame' = [value |-> value, level |-> level, current_idx |-> None, steps |-> 0]
    /\ op' = "search"
    /\ arg' = value
    /\ ret' = << >>
    /\ log' = ""
    /\ old_level' = level
    /\ removed' = None
    /\ shown' = << >>
    /\ UNCHANGED <<nodes, head_forward, level, rng_state, live, draws, order,
                   twin, twin_ret, seed_vars>>

SearchStep ==
    /\ pc = "search"
    /\ \E r \in {search_step(Self, frame.current_idx, frame.level, frame.value)} :
          IF r.done
          THEN /\ pc' = "idle"
               /\ frame' = << >>
               /\ ret' = <<r.found>>
               /\ log' = IF r.found THEN "found" ELSE "not found"
          ELSE /\ pc' = "search"
               /\ frame' = [frame EXCEPT !.current_idx = r.current_idx,
                                         !.level = r.level,
                                         !.steps = frame.steps + 1]
               /\ UNCHANGED <<ret, log>>
    /\ UNCHANGED <<nodes, head_forward, level, rng_state, op, arg, live, draws,
                   old_level, removed, order, shown, twin, twin_ret, seed_vars>>

\* insert is called: the traversal, which fills update[], and the duplicate
\* check; a duplicate returns, anything else goes on to random_level with
\* `let mut level = 0`
InsertCall(value) ==
    /\ pc = "idle"
    /\ \E t \in {traverse(Self, value)} :
          IF insert_duplicate(Self, get_forward(Self, t.current_idx, 0), value)
          THEN /\ pc' = "idle"
               /\ frame' = << >>
               /\ log' = "already exists"
               /\ shown' = <<display(Self)>>
          ELSE /\ draws < MaxInserts
               /\ pc' = "random_level"
               /\ frame' = [value |-> value, update |-> t.update, level |-> 0,
                            drawn |-> 0,
                            tape |-> draw_tape(rng_state, MAX_LEVEL)]
               /\ log' = ""
               /\ shown' = << >>
    /\ op' = "insert"
    /\ arg' = value
    /\ ret' = << >>
    /\ old_level' = level
    /\ removed' = None
    /\ UNCHANGED <<nodes, head_forward, level, rng_state, live, draws, order,
                   twin, twin_ret, seed_vars>>

DrawStep ==
    /\ pc = "random_level"
    /\ \E r \in {random_level_step(rng_state,
                                   IF frame.drawn < Len(frame.tape)
                                   THEN frame.tape[frame.drawn + 1]
                                   ELSE << >>,
                                   frame.level)} :
          /\ rng_state' = r.rng_state
          /\ pc' = IF r.done THEN "raise" ELSE "random_level"
          /\ frame' = [frame EXCEPT !.level = r.level,
                                    !.drawn = IF r.drew THEN frame.drawn + 1
                                                        ELSE frame.drawn]
    /\ UNCHANGED <<nodes, head_forward, level, op, arg, ret, log, live, draws,
                   old_level, removed, order, shown, twin, twin_ret, seed_vars>>

\* insert: `if new_level > self.level { .. }`, `let new_idx = self.nodes.len()`
\* and `Node::new(value.clone(), new_level)`; frame.level is new_level
RaiseStep ==
    /\ pc = "raise"
    /\ pc' = "splice"
    /\ frame' = [value    |-> frame.value,
                 update   |-> raise_update(Self, frame.update, frame.level),
                 level    |-> frame.level,
                 drawn    |-> frame.drawn,
                 new_idx  |-> Len(nodes),
                 new_node |-> Node_new(frame.value, frame.level),
                 k        |-> 0]
    /\ level' = raise_level(Self, frame.level).level
    /\ UNCHANGED <<nodes, head_forward, rng_state, op, arg, ret, log, live, draws,
                   old_level, removed, order, shown, twin, twin_ret, seed_vars>>

\* insert: `for level in 0..=new_level`, frame.k being the loop's `level`
SpliceStep ==
    /\ pc = "splice"
    /\ frame.k <= frame.level
    /\ \E r \in {splice_step(Self, frame.new_node, frame.update, frame.k,
                             frame.new_idx)} :
          /\ nodes' = r.sl.nodes
          /\ head_forward' = r.sl.head_forward
          /\ frame' = [frame EXCEPT !.new_node = r.new_node, !.k = frame.k + 1]
    /\ UNCHANGED <<level, rng_state, op, arg, ret, log, live, draws, old_level,
                   removed, order, shown, twin, twin_ret, pc, seed_vars>>

\* insert: `self.nodes.push(new_node)` and the closing display()
InsertFinish ==
    /\ pc = "splice"
    /\ frame.k > frame.level
    /\ nodes' = Append(nodes, frame.new_node)
    /\ shown' = <<display([Self EXCEPT !.nodes = Append(nodes, frame.new_node)])>>
    /\ pc' = "idle"
    /\ frame' = << >>
    /\ log' = "inserted"
    /\ live' = live \cup {frame.value}
    /\ draws' = draws + 1
    /\ order' = Append(order, frame.value)
    /\ UNCHANGED <<head_forward, level, rng_state, op, arg, ret, old_level,
                   removed, twin, twin_ret, seed_vars>>

\* delete is called: the traversal and the check of the candidate; not found
\* returns false, found goes through the splice, the removal and the
\* renumbering and on to the shrink loop
DeleteCall(value) ==
    /\ pc = "idle"
    /\ \E t \in {traverse(Self, value)} :
          IF delete_found(Self, get_forward(Self, t.current_idx, 0), value)
          THEN \E r \in {delete_compact(Self, value)} :
                  /\ Install(r.sl)
                  /\ pc' = "shrink"
                  /\ frame' = [value |-> value, steps |-> 0]
                  /\ ret' = << >>
                  /\ log' = ""
                  /\ removed' = r.removed
                  /\ shown' = << >>
          ELSE /\ pc' = "idle"
               /\ frame' = << >>
               /\ ret' = <<FALSE>>
               /\ log' = "not found"
               /\ removed' = None
               /\ shown' = <<display(Self)>>
               /\ UNCHANGED <<nodes, head_forward, level, rng_state>>
    /\ op' = "delete"
    /\ arg' = value
    /\ live' = live \ {value}
    /\ order' = SelectSeq(order, LAMBDA w : w # value)
    /\ old_level' = level
    /\ UNCHANGED <<draws, twin, twin_ret, seed_vars>>

ShrinkStep ==
    /\ pc = "shrink"
    /\ \E r \in {shrink_step(Self)} :
          IF r.done
          THEN /\ pc' = "idle"
               /\ frame' = << >>
               /\ ret' = <<TRUE>>
               /\ log' = "deleted"
               /\ shown' = <<display(Self)>>
               /\ UNCHANGED level
          ELSE /\ level' = r.sl.level
               /\ pc' = "shrink"
               /\ frame' = [frame EXCEPT !.steps = frame.steps + 1]
               /\ UNCHANGED <<ret, log, shown>>
    /\ UNCHANGED <<nodes, head_forward, rng_state, op, arg, live, draws,
                   old_level, removed, order, twin, twin_ret, seed_vars>>

StepNext ==
    \/ \E value \in Values : SearchCall(value)
    \/ SearchStep
    \/ \E value \in Values : InsertCall(value)
    \/ DrawStep
    \/ RaiseStep
    \/ SpliceStep
    \/ InsertFinish
    \/ \E value \in Values : DeleteCall(value)
    \/ ShrinkStep

\* A call in progress is not abandoned: the thread that made it runs it on.
StepSpec ==
    /\ StepInit
    /\ [][StepNext]_vars
    /\ WF_vars(SearchStep)
    /\ WF_vars(DrawStep)
    /\ WF_vars(RaiseStep)
    /\ WF_vars(SpliceStep)
    /\ WF_vars(InsertFinish)
    /\ WF_vars(ShrinkStep)

----------------------------------------------------------------------------
\* Construction from several threads. new() is callable from any thread; its
\* only access to shared state is the fetch_add on SEED_COUNTER, one atomic
\* step, and the rest (taking the address of the local, computing the seed,
\* building the empty list) is local to the caller. A list belongs to the
\* thread that built it, which may draw from its generator and drop it.

Threads == 1..NumThreads

\* The value of SEED_COUNTER where a behaviour starts: 1 in a fresh process,
\* 2^32 - 1 in a process that has constructed 2^32 - 2 lists.
CounterStarts == { <<0, SEED_COUNTER>>, <<65535, 65535>> }

\* Low 32 bits of the addresses the local `counter` of new() can have (new()
\* is reached from several call depths and from several threads' stacks)
SeedAddrs == { <<4096, 344>>, <<4096, 376>>, <<4096, 348>>, <<32767, 65532>> }

list_vars ==
    <<nodes, head_forward, level, rng_state, op, arg, ret, log, live, draws,
      old_level, removed, order, shown, twin, twin_ret, pc, frame>>

NoCall ==
    [pc |-> "idle", counter |-> << >>, rng_state |-> << >>, prev |-> << >>,
     draws |-> 0]

SeedInit ==
    /\ nodes = << >>
    /\ head_forward = [i \in 1..(MAX_LEVEL + 1) |-> None]
    /\ level = 0
    /\ rng_state = << >>
    /\ op = ""
    /\ arg = 0
    /\ ret = << >>
    /\ log = ""
    /\ live = {}
    /\ draws = 0
    /\ old_level = 0
    /\ removed = None
    /\ order = << >>
    /\ shown = << >>
    /\ twin = << >>
    /\ twin_ret = << >>
    /\ pc = "idle"
    /\ frame = << >>
    /\ seed_counter \in CounterStarts
    /\ calls = [t \in Threads |-> NoCall]
    /\ fetched = << >>
    /\ seeded = {}

\* new: `let counter = SEED_COUNTER.fetch_add(1, AtomicOrdering::Relaxed)`
FetchAdd(t) ==
    /\ calls[t].pc = "idle"
    /\ Len(fetched) < MaxCalls
    /\ \E r \in {fetch_add(seed_counter)} :
          /\ seed_counter' = r.now
          /\ calls' = [calls EXCEPT ![t] = [NoCall EXCEPT !.pc = "fetched",
                                                          !.counter = r.old]]
          /\ fetched' = Append(fetched, r.old)
    /\ UNCHANGED <<list_vars, seeded>>

\* new: the address of the local, the seed and the list
MakeSeed(t) ==
    /\ calls[t].pc = "fetched"
    /\ \E stack_addr \in SeedAddrs :
          \E x \in {seed(calls[t].counter, stack_addr)} :
              /\ calls' = [calls EXCEPT ![t].pc = "built", ![t].rng_state = x]
              /\ seeded' = seeded \cup {[counter    |-> calls[t].counter,
                                          stack_addr |-> stack_addr,
                                          seed       |-> x]}
    /\ UNCHANGED <<list_vars, seed_counter, fetched>>

\* next_random on the list the thread built
NextRandom(t) ==
    /\ calls[t].pc = "built"
    /\ calls[t].draws < MaxDraws
    /\ calls' = [calls EXCEPT ![t].rng_state = next_random(calls[t].rng_state),
                              ![t].prev = calls[t].rng_state,
                              ![t].draws = calls[t].draws + 1]
    /\ UNCHANGED <<list_vars, seed_counter, fetched, seeded>>

\* The list goes out of scope; the thread may construct another
DropList(t) ==
    /\ calls[t].pc = "built"
    /\ calls' = [calls EXCEPT ![t] = NoCall]
    /\ UNCHANGED <<list_vars, seed_counter, fetched, seeded>>

SeedNext ==
    \E t \in Threads :
        \/ FetchAdd(t)
        \/ MakeSeed(t)
        \/ NextRandom(t)
        \/ DropList(t)

SeedSpec == SeedInit /\ [][SeedNext]_vars

----------------------------------------------------------------------------
\* What the properties below read off a list

InArena(sl, idx) == idx \in 0..(Len(sl.nodes) - 1)

Height(sl, idx) == Len(sl.nodes[idx + 1].forward) - 1

\* The arena indices met by following forward[L] from `idx`; `fuel` stops a
\* walk longer than any acyclic chain can be.
RECURSIVE ChainFrom(_, _, _, _)
ChainFrom(sl, idx, L, fuel) ==
    IF idx = None \/ fuel = 0
    THEN << >>
    ELSE IF InArena(sl, idx) /\ L <= Height(sl, idx)
         THEN <<idx>> \o ChainFrom(sl, sl.nodes[idx + 1].forward[L + 1], L, fuel - 1)
         ELSE <<idx>>

Chain(sl, L) == ChainFrom(sl, sl.head_forward[L + 1], L, Len(sl.nodes) + 1)

\* The values along the level-0 chain (0, which is no value, for an index
\* outside the arena)
Level0Values(sl) ==
    LET c == Chain(sl, 0)
    IN  [i \in 1..Len(c) |-> IF InArena(sl, c[i]) THEN sl.nodes[c[i] + 1].value ELSE 0]

Range(seq) == {seq[i] : i \in 1..Len(seq)}

RECURSIVE Without(_, _)
Without(seq, v) ==
    IF seq = << >>
    THEN << >>
    ELSE IF Head(seq) = v THEN Without(Tail(seq), v)
                          ELSE <<Head(seq)>> \o Without(Tail(seq), v)

RECURSIVE Tallest(_, _)
Tallest(sl, n) ==
    IF n = 0
    THEN 0
    ELSE LET rest == Tallest(sl, n - 1)
             h    == Height(sl, n - 1)
         IN  IF h > rest THEN h ELSE rest

----------------------------------------------------------------------------
\* C1: after any sequence of insert and delete calls, following forward[0]
\* from the head visits values in strictly increasing order, and the values
\* visited are exactly the values inserted and not deleted since, each once.
C1_Level0SortedAndLive ==
    LET vs == Level0Values(Self)
    IN  /\ \A i \in 1..(Len(vs) - 1) : vs[i] < vs[i + 1]
        /\ Range(vs) = live
        /\ Len(vs) = Cardinality(live)

C1_Witness ==
    /\ op = "delete"
    /\ ret = <<TRUE>>
    /\ Len(Level0Values(Self)) >= 2
    /\ \E i \in 1..(Len(nodes) - 1) : nodes[i].value > nodes[i + 1].value

\* C2: for every level L in 1..MAX_LEVEL the forward[L] chain from the head is
\* the level-0 chain restricted to the nodes of height at least L (same
\* order), and it holds exactly the arena's nodes of height at least L.
C2_LevelChains ==
    \A L \in 1..MAX_LEVEL :
        /\ Chain(Self, L) =
              SelectSeq(Chain(Self, 0),
                        LAMBDA idx : InArena(Self, idx) /\ Height(Self, idx) >= L)
        /\ Range(Chain(Self, L)) =
              {idx \in 0..(Len(nodes) - 1) : Height(Self, idx) >= L}

C2_Witness ==
    /\ op = "delete"
    /\ ret = <<TRUE>>
    /\ \E L \in 1..MAX_LEVEL :
          /\ Len(Chain(Self, L)) >= 1
          /\ Len(Chain(Self, L)) < Len(Chain(Self, 0))

\* C3: search(v) returns true exactly when v was inserted and not deleted
\* since its last insertion, in every reachable state and for every v; the
\* value a search call returned is that answer.
C3_SearchIsMembership ==
    /\ \A v \in Values : search(Self, v) = (v \in live)
    /\ op = "search" => ret = <<arg \in live>>

C3_Witness ==
    /\ op = "search"
    /\ ret = <<FALSE>>
    /\ live # {}
    /\ draws > Cardinality(live)

\* C4: delete(v) of a present v returns true; afterwards search(v) is false,
\* len() is one less, and the level-0 value sequence is the previous one with
\* v removed (every other value is still found).
C4_DeletePresent ==
    [][(op' = "delete" /\ arg' \in live) =>
          /\ ret' = <<TRUE>>
          /\ len(Self') = len(Self) - 1
          /\ Level0Values(Self') = Without(Level0Values(Self), arg')
          /\ ~search(Self', arg')
          /\ \A w \in live \ {arg'} : search(Self', w)]_vars

C4_Witness ==
    /\ op = "delete"
    /\ ret = <<TRUE>>
    /\ len(Self) >= 2

\* C5: delete(v) of an absent v returns false and changes nothing: arena,
\* head forward array, level and len() are as before the call.
C5_DeleteAbsent ==
    [][(op' = "delete" /\ arg' \notin live) =>
          /\ ret' = <<FALSE>>
          /\ nodes' = nodes
          /\ head_forward' = head_forward
          /\ level' = level
          /\ len(Self') = len(Self)]_vars

C5_Witness ==
    /\ op = "delete"
    /\ ret = <<FALSE>>
    /\ len(Self) >= 2
    /\ \E i \in 1..Len(nodes) : nodes[i].value > arg

\* C6: insert(v) of a present v is a no-op: arena, every forward entry, head
\* forward array, level and len() are as before the call.
C6_InsertDuplicate ==
    [][(op' = "insert" /\ arg' \in live) =>
          /\ nodes' = nodes
          /\ head_forward' = head_forward
          /\ level' = level
          /\ len(Self') = len(Self)]_vars

C6_Witness ==
    /\ op = "insert"
    /\ log = "already exists"
    /\ len(Self) >= 2

\* C7: insert(v) of an absent v adds it: afterwards search(v) is true, len()
\* is one more, and every value present before is still found.
C7_InsertAbsent ==
    [][(op' = "insert" /\ arg' \notin live) =>
          /\ len(Self') = len(Self) + 1
          /\ search(Self', arg')
          /\ \A w \in live : search(Self', w)]_vars

C7_Witness ==
    /\ op = "insert"
    /\ log = "inserted"
    /\ len(Self) >= 3
    /\ \E i \in 1..Len(nodes) : nodes[i].value > arg
    /\ \E i \in 1..Len(nodes) : nodes[i].value < arg

\* C8: once every inserted value has been deleted again the list is empty:
\* len() = 0 and is_empty(), whatever the orders and the heights drawn.
C8_RoundTripEmpty ==
    (draws > 0 /\ live = {}) => (len(Self) = 0 /\ is_empty(Self))

C8_Witness ==
    /\ op = "delete"
    /\ ret = <<TRUE>>
    /\ live = {}
    /\ draws >= 3

\* C9: after every operation the level field is the greatest height among the
\* arena's nodes, and 0 when the arena is empty.
C9_LevelIsTallest ==
    level = Tallest(Self, Len(nodes))

C9_Witness ==
    /\ op = "delete"
    /\ ret = <<TRUE>>
    /\ level < old_level
    /\ level >= 1

\* C10: after every operation every forward entry of every node and every
\* head forward entry is empty or an index below the arena length.
C10_NoDangling ==
    /\ \A L \in 1..Len(head_forward) :
          head_forward[L] = None \/ InArena(Self, head_forward[L])
    /\ \A n \in 1..Len(nodes) : \A L \in 1..Len(nodes[n].forward) :
          nodes[n].forward[L] = None \/ InArena(Self, nodes[n].forward[L])

C10_Witness ==
    /\ op = "delete"
    /\ ret = <<TRUE>>
    /\ head_forward[1] # None /\ head_forward[1] > 0
    /\ \E n \in 1..Len(nodes) : nodes[n].forward[1] # None

\* C11: on a list as new() returns it (no insert has taken effect yet):
\* len() = 0, is_empty(), level 0, all MAX_LEVEL+1 head entries empty, and
\* search(v) and delete(v) return false for every v.
C11_FreshList ==
    draws = 0 =>
        /\ len(Self) = 0
        /\ is_empty(Self)
        /\ level = 0
        /\ Len(head_forward) = MAX_LEVEL + 1
        /\ \A L \in 1..Len(head_forward) : head_forward[L] = None
        /\ \A v \in Values : ~search(Self, v) /\ ~delete(Self, v).ret
        /\ op \in {"search", "delete"} => ret = <<FALSE>>

C11_Witness ==
    /\ draws = 0
    /\ op = "delete"
    /\ ret = <<FALSE>>

\* C12: search, len, is_empty, display and display_detailed leave the arena,
\* the head forward array, the level and the generator state as they were,
\* in every reachable state, the empty list included.
ReadOnlyCalls == {"search", "len", "is_empty", "display", "display_detailed"}

C12_ReadOnlyCalls ==
    [][op' \in ReadOnlyCalls =>
          /\ nodes' = nodes
          /\ head_forward' = head_forward
          /\ level' = level
          /\ rng_state' = rng_state]_vars

C12_Witness ==
    /\ op = "display"
    /\ shown # << >>
    /\ ~shown[1].empty
    /\ Len(shown[1].rows) >= 2
    /\ \E k \in 1..Len(shown[1].rows) : << >> \in Range(shown[1].rows[k])

\* C13: random_level returns a height in 0..MAX_LEVEL, so every stored node
\* has between 1 and MAX_LEVEL+1 forward entries.
C13_HeightsInRange ==
    /\ random_level(rng_state).level \in 0..MAX_LEVEL
    /\ \A n \in 1..Len(nodes) : Len(nodes[n].forward) \in 1..(MAX_LEVEL + 1)

C13_Witness ==
    /\ \E n \in 1..Len(nodes) : Len(nodes[n].forward) = MAX_LEVEL + 1
    /\ \E n \in 1..Len(nodes) : Len(nodes[n].forward) < MAX_LEVEL + 1
    /\ op = "insert"

\* No unguarded index or subtraction of insert, delete, display and
\* display_detailed goes out of range in the current state
AllInRange ==
    /\ \A v \in Values : insert_in_range(Self, v) /\ delete_in_range(Self, v)
    /\ display_in_range(Self)
    /\ display_detailed_in_range(Self)

\* C14: in every reachable state no operation indexes out of range or
\* subtracts below zero: insert and delete of any value, display and
\* display_detailed keep every unguarded index in range (search has none).
C14_NoPanic == []AllInRange

C14_Witness ==
    /\ op = "delete"
    /\ ret = <<TRUE>>
    /\ level = MAX_LEVEL
    /\ len(Self) >= 1

\* The arena values, and the last position of chain `c` whose value is below v
ArenaValues(sl) == {sl.nodes[n].value : n \in 1..Len(sl.nodes)}

LastBelow(sl, c, v) ==
    LET below == {i \in 1..Len(c) : sl.nodes[c[i] + 1].value < v}
    IN  IF below = {} THEN None
        ELSE c[CHOOSE i \in below : \A j \in below : j <= i]

\* C15: in every reachable state and for every value v, the traversal leaves
\* in update[L], for each L in 0..=level, the last node of the level-L chain
\* whose value is < v (None, the head, when there is none), and the level-0
\* successor of the final position is the node holding the smallest stored
\* value >= v (None when there is none).
C15_Traversal ==
    \A v \in Values :
        LET t   == traverse(Self, v)
            nxt == get_forward(Self, t.current_idx, 0)
            ge  == {w \in ArenaValues(Self) : w >= v}
        IN  /\ \A L \in 0..level : t.update[L + 1] = LastBelow(Self, Chain(Self, L), v)
            /\ t.current_idx = t.update[1]
            /\ IF ge = {}
               THEN nxt = None
               ELSE /\ InArena(Self, nxt)
                    /\ nodes[nxt + 1].value \in ge
                    /\ \A w \in ge : nodes[nxt + 1].value <= w

C15_Witness ==
    /\ op \in {"insert", "delete"}
    /\ level >= 2
    /\ \E v \in Values :
          LET t == traverse(Self, v)
          IN  /\ t.update[1] # None
              /\ t.update[level + 1] = None
              /\ \E L \in 1..level : t.update[L + 1] \notin {None, t.update[1]}
              /\ get_forward(Self, t.current_idx, 0) # None

\* Chain `c` of `sl` with new_idx put behind its members of value < v
InsertedAt(sl, c, new_idx, v) ==
    LET k == Cardinality({i \in 1..Len(c) : sl.nodes[c[i] + 1].value < v})
    IN  SubSeq(c, 1, k) \o <<new_idx>> \o SubSeq(c, k + 1, Len(c))

\* C16: an insert of an absent value that draws height h appends the node at
\* index new_idx = old len with h+1 forward entries; for every L in 0..=h the
\* level-L chain afterwards is the chain before with new_idx put at the sorted
\* position, and for every L > h the level-L chain is the one before.
C16_InsertSplices ==
    [][(op' = "insert" /\ log' = "inserted") =>
          LET new_idx == Len(nodes)
              h       == random_level(rng_state).level
          IN  /\ Len(nodes') = new_idx + 1
              /\ nodes'[new_idx + 1].value = arg'
              /\ Height(Self', new_idx) = h
              /\ \A L \in 0..MAX_LEVEL :
                    Chain(Self', L) =
                        IF L <= h
                        THEN InsertedAt(Self, Chain(Self, L), new_idx, arg')
                        ELSE Chain(Self, L)]_vars

C16_Witness ==
    /\ op = "insert"
    /\ log = "inserted"
    /\ Len(nodes) >= 3
    /\ LET n == Len(nodes) - 1
           c == Chain(Self, 0)
       IN  /\ c[1] # n
           /\ c[Len(c)] # n
           /\ Height(Self, n) \in 1..(level - 1)
           /\ Len(Chain(Self, Height(Self, n))) >= 2

\* C17: an insert of an absent value that draws height h > level finds the
\* head's entries for levels level+1..=h empty, records the head (None) as
\* their predecessor, leaves them pointing at the new node whose own entries
\* there are empty, and sets level to h; with h <= level, level is unchanged.
C17_RaiseLevel ==
    [][(op' = "insert" /\ log' = "inserted") =>
          LET new_idx == Len(nodes)
              h       == random_level(rng_state).level
              update  == raise_update(Self, traverse(Self, arg').update, h)
          IN  IF h > level
              THEN /\ level' = h
                   /\ \A L \in (level + 1)..h :
                         /\ update[L + 1] = None
                         /\ head_forward[L + 1] = None
                         /\ head_forward'[L + 1] = new_idx
                         /\ nodes'[new_idx + 1].forward[L + 1] = None
              ELSE level' = level]_vars

C17_Witness ==
    /\ op = "insert"
    /\ log = "inserted"
    /\ old_level >= 1
    /\ level > old_level
    /\ Len(nodes) >= 2
    /\ head_forward[level + 1] = Len(nodes) - 1
    /\ nodes[Len(nodes)].forward[level + 1] = None
    /\ nodes[Len(nodes)].forward[1] # None

\* TRUE when some entry of the head or of a node of `sl` holds idx
References(sl, idx) ==
    \/ \E i \in 1..Len(sl.head_forward) : sl.head_forward[i] = idx
    \/ \E n \in 1..Len(sl.nodes) :
          \E i \in 1..Len(sl.nodes[n].forward) : sl.nodes[n].forward[i] = idx

\* C18: in a delete that returns true, for every L in 0..=height of the
\* target, update[L]'s level-L entry held the target's index before the
\* splice and holds the target's own level-L entry after it; once the splice
\* loop is done no entry of the head or of any node holds the target's index.
C18_DeleteUnlinks ==
    [][(op' = "delete" /\ ret' = <<TRUE>>) =>
          \A t \in {traverse(Self, arg')} :
          \A target_idx \in {get_forward(Self, t.current_idx, 0)} :
          \A sl1 \in {unlink(Self, t.update, target_idx, 0, Height(Self, target_idx))} :
              /\ removed' = target_idx
              /\ nodes[target_idx + 1].value = arg'
              /\ References(Self, target_idx)
              /\ \A L \in 0..Height(Self, target_idx) :
                    /\ get_forward(Self, t.update[L + 1], L) = target_idx
                    /\ get_forward(sl1, t.update[L + 1], L) =
                           nodes[target_idx + 1].forward[L + 1]
              /\ ~References(sl1, target_idx)]_vars

C18_Witness ==
    /\ op = "delete"
    /\ ret = <<TRUE>>
    /\ removed # None
    /\ removed < Len(nodes)
    /\ Len(nodes) >= 2
    /\ level >= 1
    /\ Len(Chain(Self, 1)) >= 1
    /\ Chain(Self, 0)[1] = removed

\* The entry `now` is what the compaction that removed position p makes of
\* the entry `was`
Renumbered(was, now, p) ==
    IF was = None THEN now = None
    ELSE IF was > p THEN now = was - 1
    ELSE IF was < p THEN now = was
    ELSE now = None

\* The position after the removal of p of the node that was at n (n # p)
Moved(n, p) == IF n > p THEN n - 1 ELSE n

\* C19: in a delete that returns true and removes position p, every entry of
\* every remaining node and of the head that held an index > p after the
\* splice holds that index minus one after the step, every entry that held an
\* index < p holds it still, an entry that held p is None, an entry that was
\* None is None; each node keeps its value and height at its now position, so
\* every entry addresses a node of the same value as before.
C19_Compaction ==
    [][(op' = "delete" /\ ret' = <<TRUE>>) =>
          \A t \in {traverse(Self, arg')} :
          \A p \in {get_forward(Self, t.current_idx, 0)} :
          \A sl1 \in {unlink(Self, t.update, p, 0, Height(Self, p))} :
              /\ removed' = p
              /\ Len(nodes') = Len(nodes) - 1
              /\ Len(head_forward') = Len(head_forward)
              /\ \A i \in 1..Len(head_forward) :
                    /\ Renumbered(sl1.head_forward[i], head_forward'[i], p)
                    /\ head_forward'[i] # None =>
                          nodes'[head_forward'[i] + 1].value =
                              nodes[sl1.head_forward[i] + 1].value
              /\ \A n \in 0..(Len(nodes) - 1) :
                    n # p =>
                        /\ nodes'[Moved(n, p) + 1].value = nodes[n + 1].value
                        /\ Height(Self', Moved(n, p)) = Height(Self, n)
                        /\ \A i \in 1..Len(nodes[n + 1].forward) :
                              \A was \in {sl1.nodes[n + 1].forward[i]} :
                              \A now \in {nodes'[Moved(n, p) + 1].forward[i]} :
                                  /\ Renumbered(was, now, p)
                                  /\ now # None =>
                                        nodes'[now + 1].value = nodes[was + 1].value]_vars

C19_Witness ==
    /\ op = "delete"
    /\ ret = <<TRUE>>
    /\ removed # None
    /\ Len(nodes) >= 2
    /\ \E n \in 1..Len(nodes) :
          \E i \in 1..Len(nodes[n].forward) :
              nodes[n].forward[i] # None /\ nodes[n].forward[i] >= removed
    /\ \E i \in 1..Len(head_forward) :
          head_forward[i] # None /\ head_forward[i] < removed

\* C20: a delete step never raises level; one that returns true leaves level
\* at the highest L <= the former level such that L = 0 or the head's
\* level-L entry is non-empty, so that level is 0 or some node has at least
\* level+1 forward entries and the head's level-`level` chain is not empty.
C20_ShrinkLevel ==
    [][op' = "delete" =>
          /\ level' <= level
          /\ ret' = <<FALSE>> => level' = level
          /\ ret' = <<TRUE>> =>
                /\ level' = 0 \/ head_forward'[level' + 1] # None
                /\ \A L \in (level' + 1)..level : head_forward'[L + 1] = None
                /\ level' = 0 \/ \E n \in 0..(Len(nodes') - 1) : Height(Self', n) >= level'
                /\ \A n \in 0..(Len(nodes') - 1) : Height(Self', n) <= level']_vars

C20_Witness ==
    /\ op = "delete"
    /\ ret = <<TRUE>>
    /\ old_level - level >= 2
    /\ level >= 1
    /\ head_forward[level + 1] # None
    /\ head_forward[level + 2] = None

\* The arena indices of the nodes with more than L forward entries
AtLeast(sl, L) == {n \in 0..(Len(sl.nodes) - 1) : Height(sl, n) >= L}

\* C21: in every reachable state and for every L in 0..=MAX_LEVEL, the head's
\* forward[L] is None when no node has height >= L and otherwise is the arena
\* index of the node of smallest value among those of height >= L; every
\* head entry above `level` is None.
C21_HeadEntries ==
    /\ \A L \in 0..MAX_LEVEL :
          IF AtLeast(Self, L) = {}
          THEN head_forward[L + 1] = None
          ELSE /\ head_forward[L + 1] \in AtLeast(Self, L)
               /\ \A m \in AtLeast(Self, L) :
                     nodes[head_forward[L + 1] + 1].value <= nodes[m + 1].value
    /\ \A L \in (level + 1)..MAX_LEVEL : head_forward[L + 1] = None

C21_Witness ==
    /\ op = "delete"
    /\ ret = <<TRUE>>
    /\ level \in 1..(MAX_LEVEL - 1)
    /\ head_forward[level + 1] \notin {None, head_forward[1]}
    /\ head_forward[1] # None

\* C22: across every step, every node that stays in the arena keeps its value
\* and its number of forward entries: at the same position when the step is
\* not a delete that returned true, at the position compaction gives it
\* (Moved) when it is; the step changes at most the contents of its forward
\* entries.
C22_NodeFrame ==
    [][IF op' = "delete" /\ ret' = <<TRUE>>
       THEN \A n \in 0..(Len(nodes) - 1) :
               n # removed' =>
                   /\ Moved(n, removed') < Len(nodes')
                   /\ nodes'[Moved(n, removed') + 1].value = nodes[n + 1].value
                   /\ Len(nodes'[Moved(n, removed') + 1].forward) = Len(nodes[n + 1].forward)
       ELSE \A n \in 1..Len(nodes) :
               /\ n <= Len(nodes')
               /\ nodes'[n].value = nodes[n].value
               /\ Len(nodes'[n].forward) = Len(nodes[n].forward)]_vars

C22_Witness ==
    /\ op = "delete"
    /\ ret = <<TRUE>>
    /\ removed = 0
    /\ Len(nodes) >= 2
    /\ Len(nodes[1].forward) # Len(nodes[2].forward)
    /\ nodes[1].value > nodes[2].value

\* The values of the arena, by position
ArenaSeq(sl) == [n \in 1..Len(sl.nodes) |-> sl.nodes[n].value]

\* C23: an insert that takes effect appends its value at position len() and
\* leaves every earlier position as it was; a delete that returns true and
\* removes position p leaves positions below p as they were and brings the
\* node of every position q > p to q-1; every other call leaves the arena
\* positions as they were; so the arena lists the live values in the order
\* of their insertion.
C23_ArenaPositions ==
    [][/\ IF op' = "insert" /\ log' = "inserted"
          THEN /\ Len(nodes') = Len(nodes) + 1
               /\ SubSeq(ArenaSeq(Self'), 1, Len(nodes)) = ArenaSeq(Self)
               /\ nodes'[Len(nodes) + 1].value = arg'
          ELSE IF op' = "delete" /\ ret' = <<TRUE>>
               THEN /\ Len(nodes') = Len(nodes) - 1
                    /\ nodes[removed' + 1].value = arg'
                    /\ \A q \in 0..(Len(nodes) - 1) :
                          /\ q < removed' => nodes'[q + 1].value = nodes[q + 1].value
                          /\ q > removed' => nodes'[q].value = nodes[q + 1].value
               ELSE ArenaSeq(Self') = ArenaSeq(Self)
       /\ ArenaSeq(Self') = order']_vars

C23_Witness ==
    /\ op = "delete"
    /\ ret = <<TRUE>>
    /\ removed = 1
    /\ Len(nodes) >= 2
    /\ ArenaSeq(Self) = order
    /\ nodes[1].value > nodes[2].value

\* No defensive arm of insert, delete, search and the display walks is taken
\* in the current state
AllStrict ==
    /\ \A v \in Values :
          /\ insert_strict(Self, v)
          /\ delete_strict(Self, v)
          /\ search_strict(Self, v)
    /\ \A L \in 0..level :
          /\ forward_in_range(Self, None, L)
          /\ \A c \in {Chain(Self, L)} :
                \A k \in 1..Len(c) :
                    /\ c[k] < Len(nodes)
                    /\ forward_in_range(Self, c[k], L)

\* C24: in every reachable state and for every value, insert, delete and
\* search take none of their defensive arms: every walk finds next_idx below
\* the arena length, every get_forward and set_forward call has an in-range
\* node index and a level below that node's (or the head's) forward length,
\* and `level <= self.level` holds at every iteration of delete's splice loop;
\* the same holds of the nodes display walks on each level 0..=level.
C24_NoFallback == []AllStrict

C24_Witness ==
    /\ op = "delete"
    /\ ret = <<TRUE>>
    /\ Len(nodes) >= 2
    /\ \E v \in Values :
          /\ traverse(Self, v).update[2] # None
          /\ delete_found(Self, get_forward(Self, traverse(Self, v).current_idx, 0), v)
          /\ delete_strict(Self, v)

\* C25: every insert, search and delete call returns. While a call runs,
\* the walk of search has made at most len() + level + 1 iterations,
\* random_level at most MAX_LEVEL draws, the splice loop at most new_level + 1
\* iterations and the shrink loop at most old_level iterations with level >=
\* 0; whenever no splice is under way each level's chain from the head ends
\* at None after at most len() distinct arena nodes, and every non-empty
\* forward entry of a node leads to a node of strictly greater value.
C25_LoopBounds ==
    /\ pc = "search" => frame.steps <= Len(nodes) + level + 1
    /\ pc \in {"random_level", "raise", "splice"} => frame.drawn <= MAX_LEVEL
    /\ pc \in {"raise", "splice"} => frame.drawn >= 1 /\ frame.level \in 0..MAX_LEVEL
    /\ pc = "splice" => frame.k <= frame.level + 1
    /\ pc = "shrink" => frame.steps <= old_level /\ level >= 0
    /\ pc # "splice" =>
          /\ \A L \in 0..MAX_LEVEL :
                \A c \in {Chain(Self, L)} :
                    /\ Len(c) <= Len(nodes)
                    /\ \A k \in 1..Len(c) :
                          InArena(Self, c[k]) /\ L <= Height(Self, c[k])
                    /\ \A j, k \in 1..Len(c) : j < k => c[j] # c[k]
                    /\ c # << >> => nodes[c[Len(c)] + 1].forward[L + 1] = None
          /\ \A n \in 1..Len(nodes) :
                \A i \in 1..Len(nodes[n].forward) :
                    nodes[n].forward[i] # None =>
                        /\ InArena(Self, nodes[n].forward[i])
                        /\ nodes[nodes[n].forward[i] + 1].value > nodes[n].value

C25_Termination ==
    /\ []C25_LoopBounds
    /\ (pc # "idle") ~> (pc = "idle")

C25_Witness ==
    /\ pc = "search"
    /\ frame.current_idx # None
    /\ frame.level < level
    /\ frame.steps >= 3
    /\ Len(nodes) >= 3

\* search, insert's duplicate check and delete's return value agree on every
\* value in the current state
PresenceAgrees ==
    \A v \in Values :
        \A t \in {traverse(Self, v)} :
            \A found \in {search(Self, v)} :
                /\ found =
                      insert_duplicate(Self, get_forward(Self, t.current_idx, 0), v)
                /\ found = delete(Self, v).ret
                /\ found = (insert(Self, v).log = "already exists")

\* C26: in every reachable state and for every value v, search(v), the
\* duplicate check of insert(v) on the level-0 successor of the traversal's
\* final position, and the return value of delete(v) agree.
C26_PresenceAgrees == []PresenceAgrees

C26_Witness ==
    /\ op = "search"
    /\ ret = <<TRUE>>
    /\ level >= 1
    /\ Len(nodes) >= 2
    /\ search_advance(Self, None, level, arg).found
    /\ \E v \in Values : ~search(Self, v)

\* C27: two lists constructed with different seeds and given the same calls
\* agree, after every call, on the value the call returned, on len() and
\* is_empty(), on the level-0 value sequence and on search(v) for every v.
C27_SeedIndependent ==
    twin # << >> =>
        /\ rng_state # twin.rng_state
        /\ ret = twin_ret
        /\ len(Self) = len(twin)
        /\ is_empty(Self) = is_empty(twin)
        /\ Level0Values(Self) = Level0Values(twin)
        /\ \A v \in Values : search(Self, v) = search(twin, v)

C27_Witness ==
    /\ twin # << >>
    /\ op = "delete"
    /\ ret = <<TRUE>>
    /\ twin_ret = <<TRUE>>
    /\ Len(nodes) >= 2
    /\ level # twin.level
    /\ \E n \in 1..Len(nodes) : Len(nodes[n].forward) # Len(twin.nodes[n].forward)
    /\ Level0Values(Self) = Level0Values(twin)

\* C28: in every reachable state the level-0 chain from the head visits every
\* arena position exactly once, so len() is the number of nodes on it, and
\* is_empty() is true exactly when the head's forward[0] is None.
C28_NoOrphan ==
    /\ len(Self) = Len(Chain(Self, 0))
    /\ Range(Chain(Self, 0)) = 0..(Len(nodes) - 1)
    /\ is_empty(Self) = (head_forward[1] = None)
    /\ op = "len" => ret = <<Len(Chain(Self, 0))>>
    /\ op = "is_empty" => ret = <<head_forward[1] = None>>

C28_Witness ==
    /\ op = "len"
    /\ ret = <<2>>
    /\ draws = 3
    /\ Chain(Self, 0) = <<1, 0>>

\* C29: a step changes rng_state exactly when it is an insert of a value
\* that is not in the list, and then to the state random_level leaves; a
\* duplicate insert, search, delete (returning true or false), len, is_empty,
\* display and display_detailed leave rng_state as it was.
C29_GeneratorFrame ==
    [][IF op' = "insert" /\ arg' \notin live
       THEN /\ rng_state' = random_level(rng_state).rng_state
            /\ rng_state' # rng_state
       ELSE rng_state' = rng_state]_vars

C29_Witness ==
    /\ op = "insert"
    /\ log = "already exists"
    /\ draws = 3
    /\ Len(nodes) = 1

\* C30: once every value inserted has been deleted again, the list is the
\* one new() constructs except for rng_state: no node in the arena, level 0,
\* MAX_LEVEL+1 head entries, all None.
C30_BackToFresh ==
    (draws > 0 /\ live = {}) =>
        /\ nodes = << >>
        /\ level = 0
        /\ head_forward = [i \in 1..(MAX_LEVEL + 1) |-> None]
        /\ \A stack_addr \in StackAddrs :
              [Self EXCEPT !.rng_state = << >>] =
                  [new(SEED_COUNTER, stack_addr) EXCEPT !.rng_state = << >>]

C30_Witness ==
    /\ op = "delete"
    /\ ret = <<TRUE>>
    /\ live = {}
    /\ draws = 2
    /\ old_level >= 2
    /\ level = 0

\* The number of even values at the front of a sequence of draws
EvenRun(tape) ==
    LET odd == {k \in 1..Len(tape) : Mod2(tape[k]) = 1}
    IN  IF odd = {} THEN Len(tape)
        ELSE (CHOOSE k \in odd : \A j \in odd : k <= j) - 1

\* C31: random_level returns the number of consecutive even values the
\* generator yields from the first draw on, capped at MAX_LEVEL: a result h <
\* MAX_LEVEL comes after exactly h+1 draws, the last one odd, and the result
\* MAX_LEVEL after exactly MAX_LEVEL draws, all even; the generator is left in
\* the state of the last draw.
C31_EvenRun ==
    /\ (pc = "random_level" /\ frame.drawn = 0) =>
          random_level(rng_state).level = EvenRun(frame.tape)
    /\ pc = "raise" =>
          /\ frame.level = EvenRun(frame.tape)
          /\ frame.level \in 0..MAX_LEVEL
          /\ \A k \in 1..frame.level : Mod2(frame.tape[k]) = 0
          /\ frame.level < MAX_LEVEL =>
                /\ frame.drawn = frame.level + 1
                /\ Mod2(frame.tape[frame.level + 1]) = 1
          /\ frame.level = MAX_LEVEL => frame.drawn = MAX_LEVEL
          /\ rng_state = frame.tape[frame.drawn]

C31_Witness ==
    /\ pc = "raise"
    /\ frame.level >= 1
    /\ frame.level < MAX_LEVEL
    /\ Len(nodes) >= 1
    /\ Len(nodes[1].forward) = MAX_LEVEL + 1

\* A u32 as the set of its one bits, and the xorshift on such sets: a left
\* shift drops what passes bit 31, a right shift what passes bit 0
Bits32(x) ==
    {i \in 0..15 : (x[2] \div (2 ^ i)) % 2 = 1}
        \cup {i + 16 : i \in {j \in 0..15 : (x[1] \div (2 ^ j)) % 2 = 1}}

ShlBits(S, k) == {i + k : i \in S} \cap (0..31)

ShrBits(S, k) == {i - k : i \in S} \cap (0..31)

XorBits(S, T) == (S \ T) \cup (T \ S)

Xorshift32(S) ==
    LET a == XorBits(S, ShlBits(S, 13))
        b == XorBits(a, ShrBits(a, 17))
        c == XorBits(b, ShlBits(b, 5))
    IN  c

\* Thread t has just made a next_random call on its list
Drew(t) == calls'[t].draws = calls[t].draws + 1

\* C32: each next_random call replaces the generator state x by the 32-bit
\* xorshift of x (x ^= x << 13; x ^= x >> 17; x ^= x << 5, each left shift
\* truncated to 32 bits) and the new state is a u32 again.
C32_Xorshift ==
    [][\A t \in Threads :
          Drew(t) =>
              /\ Bits32(calls'[t].rng_state) =
                    Xorshift32(Bits32(calls[t].rng_state))
              /\ calls'[t].rng_state \in (0..65535) \X (0..65535)]_vars

C32_Witness ==
    \E t \in Threads :
        /\ calls[t].pc = "built"
        /\ calls[t].draws >= 2
        /\ calls[t].prev[1] >= 32768

\* C33: a next_random call never leaves the generator state as it was, on
\* any list seeded by new().
C33_StateMoves ==
    [][\A t \in Threads :
          Drew(t) => calls'[t].rng_state # calls[t].rng_state]_vars

C33_Witness ==
    /\ \A t \in Threads : calls[t].pc = "built" /\ calls[t].draws >= 1
    /\ \E t, u \in Threads : calls[t].rng_state # calls[u].rng_state

\* C34: the generator state is never zero: every seed new() computes is odd,
\* whatever the counter and the address, and next_random takes a non-zero
\* state to a non-zero state.
C34_NeverZero ==
    /\ \A r \in seeded : Mod2(r.seed) = 1 /\ r.seed # <<0, 0>>
    /\ \A t \in Threads :
          calls[t].pc = "built" =>
              /\ calls[t].rng_state # <<0, 0>>
              /\ next_random(calls[t].rng_state) # <<0, 0>>

C34_Witness ==
    \E t \in Threads :
        /\ calls[t].pc = "built"
        /\ calls[t].counter = <<0, 0>>
        /\ calls[t].draws >= 1

\* C35: any two lists constructed in the same process receive different
\* seeds.
C35_UniqueSeeds ==
    \A r1, r2 \in seeded : r1 # r2 => r1.seed # r2.seed

\* u32 order and successor on <<high half, low half>>
Less32(x, y) == x[1] < y[1] \/ (x[1] = y[1] /\ x[2] < y[2])

PlusOne32(x) ==
    <<(x[1] + ((x[2] + 1) \div 65536)) % 65536, (x[2] + 1) % 65536>>

\* Between the i-th and the j-th call the counter did not pass 2^32 - 1
NoWrap(i, j) == \A k \in i..(j - 1) : fetched[k] # <<65535, 65535>>

====
